---------------------------- MODULE Spec2Model ----------------------------
(***************************************************************************)
(* Model of the table normalisation engine of normalize_table.py           *)
(* (split_with_foreign_key, split_many_to_many) and of the part of         *)
(* csv_to_database.py that threads one working table through the calls.    *)
(*                                                                         *)
(* A DataFrame is a record [isTable, cols, dtypes, rows]: cols is the      *)
(* ordered sequence of column names, dtypes the dtype of each column and   *)
(* rows a sequence of rows, each a sequence of cells parallel to cols.     *)
(* A Python str is a sequence of one-character strings, so that            *)
(* str.split and str.strip are computed and not assumed.                   *)
(*                                                                         *)
(* pandas semantics relied on (documented behaviour):                      *)
(*   - drop_duplicates keeps first occurrences and treats nulls as equal;  *)
(*   - nunique ignores nulls and raises TypeError on unhashable values;    *)
(*   - merge is an inner join that keeps the order of the left keys and    *)
(*     renames only the overlapping non-key columns with the suffixes;     *)
(*   - rename ignores names that are not columns;                          *)
(*   - explode turns a list-like cell into one row per element and an      *)
(*     empty list-like into one null row.                                  *)
(***************************************************************************)
EXTENDS Integers, Sequences, FiniteSets, TLC

VARIABLES df, pre, res, pc, calls

vars == <<df, pre, res, pc, calls>>

-----------------------------------------------------------------------------
(* Bounds of the model *)

\* Largest number of rows of an input table.
MaxRows == 3

\* Largest number of splitter calls the caller makes in one run.
MaxCalls == 2

-----------------------------------------------------------------------------
(* Cells *)

Null == [kind |-> "null", s |-> <<>>, n |-> 0, items |-> <<>>]
StrCell(chars) == [kind |-> "str", s |-> chars, n |-> 0, items |-> <<>>]
IntCell(i) == [kind |-> "int", s |-> <<>>, n |-> i, items |-> <<>>]
TupleCell(elems) == [kind |-> "tuple", s |-> <<>>, n |-> 0, items |-> elems]
ListCell(elems) == [kind |-> "list", s |-> <<>>, n |-> 0, items |-> elems]

\* Series.isnull, per cell
IsNull(c) == c.kind = "null"

\* the literal 'Unknown' of fillna('Unknown')
Unknown == <<"U", "n", "k", "n", "o", "w", "n">>

\* Series.fillna('Unknown'), per cell
FillNa(c) == IF IsNull(c) THEN StrCell(Unknown) ELSE c

\* type(x) in [list, set, tuple]
IsContainer(c) == c.kind \in {"list", "tuple"}

\* a value Python cannot hash (a list; a set behaves alike): nunique and
\* drop_duplicates raise TypeError on it
IsUnhashable(c) == c.kind = "list"

-----------------------------------------------------------------------------
(* Python str operations on sequences of characters *)

StartsWith(s, p) == Len(s) >= Len(p) /\ SubSeq(s, 1, Len(p)) = p

\* x.split(sep) for a non-empty sep
RECURSIVE SplitAcc(_, _, _)
SplitAcc(s, sep, cur) ==
    IF s = <<>> THEN <<cur>>
    ELSE IF StartsWith(s, sep)
         THEN <<cur>> \o SplitAcc(SubSeq(s, Len(sep) + 1, Len(s)), sep, <<>>)
         ELSE SplitAcc(Tail(s), sep, Append(cur, Head(s)))

PySplit(s, sep) == SplitAcc(s, sep, <<>>)

RECURSIVE LStrip(_)
LStrip(s) == IF s # <<>> /\ Head(s) = " " THEN LStrip(Tail(s)) ELSE s

RECURSIVE RStrip(_)
RStrip(s) ==
    IF s # <<>> /\ s[Len(s)] = " " THEN RStrip(SubSeq(s, 1, Len(s) - 1)) ELSE s

\* v.strip()
PyStrip(s) == RStrip(LStrip(s))

\* str(x) of a tuple of strings: ('a', 'b'), ('a',), ()
RECURSIVE ReprItems(_)
ReprItems(elems) ==
    IF elems = <<>> THEN <<>>
    ELSE <<"'">> \o Head(elems) \o <<"'">>
         \o (IF Len(elems) > 1 THEN <<",", " ">> \o ReprItems(Tail(elems))
             ELSE <<>>)

PyStrOfTuple(elems) ==
    <<"(">> \o ReprItems(elems) \o (IF Len(elems) = 1 THEN <<",">> ELSE <<>>)
    \o <<")">>

\* astype('string'), per cell: nulls stay null, other values become str(x)
AsTypeString(c) ==
    IF c.kind = "tuple" THEN StrCell(PyStrOfTuple(c.items)) ELSE c

-----------------------------------------------------------------------------
(* Tables *)

NoTable == [isTable |-> FALSE, cols |-> <<>>, dtypes |-> <<>>, rows |-> <<>>]

Table(cols, dtypes, rows) ==
    [isTable |-> TRUE, cols |-> cols, dtypes |-> dtypes, rows |-> rows]

ColSet(t) == {t.cols[i] : i \in 1..Len(t.cols)}

HasCol(t, c) == c \in ColSet(t)

ColIndex(t, c) == CHOOSE i \in 1..Len(t.cols) : t.cols[i] = c

\* df[c] as a sequence of cells
Column(t, c) == [r \in 1..Len(t.rows) |-> t.rows[r][ColIndex(t, c)]]

DTypeOf(t, c) == t.dtypes[ColIndex(t, c)]

RECURSIVE SelectIdx(_, _)
SelectIdx(seq, idx) ==
    IF idx = <<>> THEN <<>> ELSE <<seq[Head(idx)]>> \o SelectIdx(seq, Tail(idx))

\* df[[c1, c2, ...]]
Project(t, names) ==
    LET idx == [i \in 1..Len(names) |-> ColIndex(t, names[i])]
    IN Table(names, SelectIdx(t.dtypes, idx),
             [r \in 1..Len(t.rows) |-> SelectIdx(t.rows[r], idx)])

RECURSIVE Without(_, _)
Without(names, c) ==
    IF names = <<>> THEN <<>>
    ELSE (IF Head(names) = c THEN <<>> ELSE <<Head(names)>>)
         \o Without(Tail(names), c)

\* df.drop(columns=[c])
DropColumn(t, c) == Project(t, Without(t.cols, c))

\* df.rename(columns={from: to}); a missing name is ignored
Rename(t, from, to) ==
    [t EXCEPT !.cols = [i \in 1..Len(t.cols) |->
                          IF t.cols[i] = from THEN to ELSE t.cols[i]]]

\* df[c] = values, for an existing column c
SetColumn(t, c, values) ==
    [t EXCEPT !.rows = [r \in 1..Len(t.rows) |->
                          [t.rows[r] EXCEPT ![ColIndex(t, c)] = values[r]]]]

\* df[c] = values with a given dtype, for a column c that may be new
AssignColumn(t, c, dtype, values) ==
    IF HasCol(t, c)
    THEN [SetColumn(t, c, values) EXCEPT !.dtypes[ColIndex(t, c)] = dtype]
    ELSE Table(Append(t.cols, c), Append(t.dtypes, dtype),
               [r \in 1..Len(t.rows) |-> Append(t.rows[r], values[r])])

\* drop_duplicates().reset_index(drop=True): first occurrences, in order
RECURSIVE DedupSeq(_, _)
DedupSeq(seq, seen) ==
    IF seq = <<>> THEN <<>>
    ELSE IF Head(seq) \in seen THEN DedupSeq(Tail(seq), seen)
         ELSE <<Head(seq)>> \o DedupSeq(Tail(seq), seen \cup {Head(seq)})

DropDuplicates(t) == [t EXCEPT !.rows = DedupSeq(t.rows, {})]

\* Series.nunique(): the number of distinct non-null values
NUnique(cells) ==
    Cardinality({cells[i] : i \in {j \in 1..Len(cells) : ~IsNull(cells[j])}})

AllNull(cells) == \A i \in 1..Len(cells) : IsNull(cells[i])

AnyUnhashable(cells) == \E i \in 1..Len(cells) : IsUnhashable(cells[i])

\* parent.index + 1
IndexPlusOne(t) == [r \in 1..Len(t.rows) |-> IntCell(r)]

\* the rows of left.merge(right, on=key): for each left row in order, one
\* row per right row with an equal key (inner join, order of the left keys)
RECURSIVE MatchRows(_, _, _, _, _)
MatchRows(lrow, li, rrows, ri, rkeepIdx) ==
    IF rrows = <<>> THEN <<>>
    ELSE (IF Head(rrows)[ri] = lrow[li]
          THEN << lrow \o SelectIdx(Head(rrows), rkeepIdx) >>
          ELSE <<>>)
         \o MatchRows(lrow, li, Tail(rrows), ri, rkeepIdx)

RECURSIVE MergeRows(_, _, _, _, _)
MergeRows(lrows, li, rrows, ri, rkeepIdx) ==
    IF lrows = <<>> THEN <<>>
    ELSE MatchRows(Head(lrows), li, rrows, ri, rkeepIdx)
         \o MergeRows(Tail(lrows), li, rrows, ri, rkeepIdx)

\* the rows of a merge with how='left': a left row without a match is kept,
\* with nulls in the columns of the right table
RECURSIVE MergeRowsLeft(_, _, _, _, _)
MergeRowsLeft(lrows, li, rrows, ri, rkeepIdx) ==
    IF lrows = <<>> THEN <<>>
    ELSE LET matched == MatchRows(Head(lrows), li, rrows, ri, rkeepIdx)
         IN (IF matched = <<>>
             THEN << Head(lrows) \o [i \in 1..Len(rkeepIdx) |-> Null] >>
             ELSE matched)
            \o MergeRowsLeft(Tail(lrows), li, rrows, ri, rkeepIdx)

\* Merge with how='left' in the place of the default how='inner'
MergeLeft(l, r, key, sl, sr) ==
    LET overlap == (ColSet(l) \cap ColSet(r)) \ {key}
        rkeep == Without(r.cols, key)
        rkeepIdx == [i \in 1..Len(rkeep) |-> ColIndex(r, rkeep[i])]
        lnames == [i \in 1..Len(l.cols) |->
                     IF l.cols[i] \in overlap THEN l.cols[i] \o sl
                     ELSE l.cols[i]]
        rnames == [i \in 1..Len(rkeep) |->
                     IF rkeep[i] \in overlap THEN rkeep[i] \o sr ELSE rkeep[i]]
    IN Table(lnames \o rnames, l.dtypes \o SelectIdx(r.dtypes, rkeepIdx),
             MergeRowsLeft(l.rows, ColIndex(l, key), r.rows, ColIndex(r, key),
                           rkeepIdx))

\* left.merge(right, on=key, suffixes=(sl, sr)), how='inner'
Merge(l, r, key, sl, sr) ==
    LET overlap == (ColSet(l) \cap ColSet(r)) \ {key}
        rkeep == Without(r.cols, key)
        rkeepIdx == [i \in 1..Len(rkeep) |-> ColIndex(r, rkeep[i])]
        lnames == [i \in 1..Len(l.cols) |->
                     IF l.cols[i] \in overlap THEN l.cols[i] \o sl
                     ELSE l.cols[i]]
        rnames == [i \in 1..Len(rkeep) |->
                     IF rkeep[i] \in overlap THEN rkeep[i] \o sr ELSE rkeep[i]]
    IN Table(lnames \o rnames, l.dtypes \o SelectIdx(r.dtypes, rkeepIdx),
             MergeRows(l.rows, ColIndex(l, key), r.rows, ColIndex(r, key),
                       rkeepIdx))

-----------------------------------------------------------------------------
(* split_with_foreign_key(df, key_col) *)

\* The validation of lines 23-40, in the order of the code: the error raised,
\* or "none".  nunique() raises TypeError on a column holding a list.
FKValidate(t, key_col) ==
    IF ~t.isTable THEN "TypeError:not a DataFrame"
    ELSE IF Len(t.rows) = 0 \/ Len(t.cols) = 0 THEN "ValueError:empty"
    ELSE IF Len(t.rows) < 2 THEN "ValueError:fewer than two rows"
    ELSE IF ~HasCol(t, key_col) THEN "ValueError:column not found"
    ELSE IF DTypeOf(t, key_col) # "object" THEN "ValueError:not string type"
    ELSE IF AllNull(Column(t, key_col)) THEN "ValueError:only null"
    ELSE IF AnyUnhashable(Column(t, key_col)) THEN "TypeError:unhashable"
    ELSE IF NUnique(Column(t, key_col)) = Len(t.rows)
         THEN "ValueError:all unique"
    ELSE IF NUnique(Column(t, key_col)) = 1 THEN "ValueError:one unique value"
    ELSE IF IsContainer(Column(t, key_col)[1]) THEN "ValueError:multivalued"
    ELSE "none"

\* lines 44-46 and 51: the parent table
FKParent(t, key_col) ==
    LET distinct == DropDuplicates(Project(t, <<key_col>>))
        asString == AssignColumn(distinct, key_col, "string",
                      [r \in 1..Len(distinct.rows) |->
                         AsTypeString(distinct.rows[r][1])])
        withId == AssignColumn(asString, "id", "int64", IndexPlusOne(asString))
    IN SetColumn(withId, key_col,
                 [r \in 1..Len(withId.rows) |->
                    FillNa(Column(withId, key_col)[r])])

\* line 50: df[key_col] = df[key_col].fillna('Unknown'), on the caller's table
FKFillInput(t, key_col) ==
    SetColumn(t, key_col,
              [r \in 1..Len(t.rows) |-> FillNa(Column(t, key_col)[r])])

\* lines 56 and 59: the child table
FKChild(filled, parent, key_col) ==
    DropColumn(Rename(Merge(filled, parent, key_col, "", "_parent"),
                      "id_parent", key_col \o "_id"),
               key_col)

\* split_with_foreign_key with the fillna of line 50 moved before the
\* validation: a rejected call has already changed the caller's table
split_with_foreign_key_fill_first(t, key_col) ==
    LET filled == IF t.isTable /\ HasCol(t, key_col)
                  THEN FKFillInput(t, key_col) ELSE t
        err == FKValidate(filled, key_col)
    IN
    IF err # "none"
    THEN [err |-> err, input |-> filled,
          first |-> NoTable, second |-> NoTable, junction |-> NoTable]
    ELSE LET parent == FKParent(filled, key_col)
         IN [err |-> "none", input |-> filled,
             first |-> FKChild(filled, parent, key_col),
             second |-> parent, junction |-> NoTable]

\* The whole call: the error (or "none"), the caller's table object after the
\* call, and the tables returned.
split_with_foreign_key(t, key_col) ==
    LET err == FKValidate(t, key_col) IN
    IF err # "none"
    THEN [err |-> err, input |-> t,
          first |-> NoTable, second |-> NoTable, junction |-> NoTable]
    ELSE LET parent == FKParent(t, key_col)
             filled == FKFillInput(t, key_col)
         IN [err |-> "none", input |-> filled,
             first |-> FKChild(filled, parent, key_col),
             second |-> parent, junction |-> NoTable]

-----------------------------------------------------------------------------
(* split_many_to_many(df, left_col, right_col, sep) *)

\* sep=None; an empty sequence is no separator of str.split
SepNone == <<>>

\* The validation of lines 84-99, in the order of the code.
M2MValidate(t, left_col, right_col) ==
    IF ~t.isTable THEN "TypeError:not a DataFrame"
    ELSE IF Len(t.rows) = 0 \/ Len(t.cols) = 0 THEN "ValueError:empty"
    ELSE IF Len(t.rows) < 2 THEN "ValueError:fewer than two rows"
    ELSE IF ~HasCol(t, left_col) THEN "ValueError:column not found"
    ELSE IF ~HasCol(t, right_col) THEN "ValueError:column not found"
    ELSE IF AllNull(Column(t, left_col)) THEN "ValueError:only null"
    ELSE IF AllNull(Column(t, right_col)) THEN "ValueError:only null"
    ELSE IF AnyUnhashable(Column(t, right_col)) THEN "TypeError:unhashable"
    ELSE IF NUnique(Column(t, right_col)) = Len(t.rows)
         THEN "ValueError:all unique"
    ELSE "none"

\* line 106: [v.strip() for v in x.split(sep)] if isinstance(x, str) else x
NormalizeCell(c, sep) ==
    IF c.kind = "str"
    THEN LET pieces == PySplit(c.s, sep)
         IN ListCell([i \in 1..Len(pieces) |-> PyStrip(pieces[i])])
    ELSE c

\* lines 103-107: a copy of df with right_col normalised into lists
M2MNormalize(t, right_col, sep) ==
    IF sep = SepNone THEN t
    ELSE SetColumn(t, right_col,
                   [r \in 1..Len(t.rows) |->
                      NormalizeCell(Column(t, right_col)[r], sep)])

\* explode of one row on the cell at index ci
ExplodeRow(row, ci) ==
    IF IsContainer(row[ci])
    THEN IF row[ci].items = <<>> THEN << [row EXCEPT ![ci] = Null] >>
         ELSE [i \in 1..Len(row[ci].items) |->
                 [row EXCEPT ![ci] = StrCell(row[ci].items[i])]]
    ELSE <<row>>

RECURSIVE ExplodeRows(_, _)
ExplodeRows(rows, ci) ==
    IF rows = <<>> THEN <<>>
    ELSE ExplodeRow(Head(rows), ci) \o ExplodeRows(Tail(rows), ci)

\* line 111: df.explode(right_col).reset_index(drop=True)
Explode(t, col) == [t EXCEPT !.rows = ExplodeRows(t.rows, ColIndex(t, col))]

\* lines 115-116: the left table
M2MLeft(norm, right_col) ==
    DropDuplicates(Project(norm, Without(norm.cols, right_col)))

\* drop_duplicates of line 116 hashes every cell of the left columns
M2MLeftUnhashable(norm, right_col) ==
    \E r \in 1..Len(norm.rows) : \E i \in 1..Len(norm.cols) :
        norm.cols[i] # right_col /\ IsUnhashable(norm.rows[r][i])

\* lines 120-127: the right table
M2MRight(df_exploded, right_col) ==
    LET distinct == DropDuplicates(Project(df_exploded, <<right_col>>))
        withId == AssignColumn(distinct, "id", "int64", IndexPlusOne(distinct))
        asString == AssignColumn(withId, right_col, "string",
                      [r \in 1..Len(withId.rows) |->
                         AsTypeString(Column(withId, right_col)[r])])
    IN SetColumn(asString, right_col,
                 [r \in 1..Len(asString.rows) |->
                    FillNa(Column(asString, right_col)[r])])

\* lines 132-134: the two merges of the junction
M2MJoined(df_exploded, left, right, left_col, right_col) ==
    Merge(Merge(df_exploded, left, left_col, "_x", "_y"),
          right, right_col, "_left", "_right")

\* lines 135-138: projection on the two ids, deduplication, renaming
M2MJunction(joined, right_col) ==
    Rename(Rename(DropDuplicates(Project(joined, <<"id_left", "id_right">>)),
                  "id_right", right_col \o "_id"),
           "id_left", "title_id")

\* The whole call.  The input is copied before it is changed (line 104), so
\* the caller's table object is the same after the call.
split_many_to_many(t, left_col, right_col, sep) ==
    LET err == M2MValidate(t, left_col, right_col)
        failed(e) == [err |-> e, input |-> t, first |-> NoTable,
                      second |-> NoTable, junction |-> NoTable]
    IN
    IF err # "none" THEN failed(err)
    ELSE LET norm == M2MNormalize(t, right_col, sep)
             df_exploded == Explode(norm, right_col)
         IN
         IF M2MLeftUnhashable(norm, right_col)
         THEN failed("TypeError:unhashable")
         ELSE LET left == M2MLeft(norm, right_col)
                  right == M2MRight(df_exploded, right_col)
                  joined == M2MJoined(df_exploded, left, right, left_col,
                                      right_col)
              IN
              IF ~HasCol(joined, "id_left") \/ ~HasCol(joined, "id_right")
              THEN failed("KeyError:id_left, id_right")
              ELSE [err |-> "none", input |-> t, first |-> left,
                    second |-> right,
                    junction |-> M2MJunction(joined, right_col)]

-----------------------------------------------------------------------------
(* The inputs *)

Digits == <<"0", "1", "2", "3", "4", "5", "6", "7", "8", "9">>

sA == <<"a">>
sB == <<"b">>
sAB == <<"a", ",", " ", "b">>
sAA == <<"a", ",", " ", "a">>

\* the cells of a categorical column of an input table
Cells == {Null, StrCell(sA), StrCell(sB), StrCell(Unknown), StrCell(sAB),
          StrCell(sAA), TupleCell(<<sA, sB>>), ListCell(<<sA>>)}

\* the cells of the two categorical columns of the two-column inputs
ChainCells == {Null, StrCell(sA), StrCell(sB), StrCell(Unknown)}

\* the separators a call is given: None, "," and ", "
Seps == {SepNone, <<",">>, <<",", " ">>}

\* the column names a call is given
KeyArgs == {"A", "B", "id", "k"}
LeftArgs == {"id", "k"}
RightArgs == {"A", "B"}

\* "id" is the row number, as line 41 of csv_to_database.py makes it;
\* "k" is a row-unique string key under another name
DTypeFor(col) == IF col = "id" THEN "int64" ELSE "object"

CellFor(col, r, a, b) ==
    CASE col = "id" -> IntCell(r)
      [] col = "k" -> StrCell(<<"k", Digits[r + 1]>>)
      [] col = "A" -> a[r]
      [] col = "B" -> b[r]

MkTable(layout, n, a, b) ==
    Table(layout, [i \in 1..Len(layout) |-> DTypeFor(layout[i])],
          [r \in 1..n |-> [i \in 1..Len(layout) |-> CellFor(layout[i], r, a, b)]])

Layouts == {<<"A", "id">>, <<"k", "A">>, <<"k", "A", "id">>}

-----------------------------------------------------------------------------
(* The caller *)

NoResult ==
    [op |-> "none", key |-> "", left |-> "", sep |-> SepNone, err |-> "none",
     first |-> NoTable, second |-> NoTable, junction |-> NoTable]

Returned(op, key, left, sep, r) ==
    [op |-> op, key |-> key, left |-> left, sep |-> sep, err |-> r.err,
     first |-> r.first, second |-> r.second, junction |-> r.junction]

\* the caller has its table and has called nothing yet
Fresh ==
    /\ pre = df
    /\ res = NoResult
    /\ pc = "idle"
    /\ calls = 0

\* the caller's table is any table of one categorical column, under any of
\* the layouts, or an object that is no table
Init ==
    /\ \/ \E layout \in Layouts, n \in 0..MaxRows :
              \E a \in [1..n -> Cells] : df = MkTable(layout, n, a, a)
       \/ df = NoTable
    /\ Fresh

\* the caller's table is a working table with a row-unique "id" and two
\* categorical columns
InitChain ==
    /\ \E n \in 0..MaxRows :
           \E a \in [1..n -> ChainCells], b \in [1..n -> ChainCells] :
               df = MkTable(<<"A", "B", "id">>, n, a, b)
    /\ Fresh

\* the caller calls split_with_foreign_key(df, key_col)
CallSplitWithForeignKey ==
    \E key_col \in KeyArgs :
        LET r == split_with_foreign_key(df, key_col) IN
        /\ pc = "idle"
        /\ calls < MaxCalls
        /\ pre' = df
        /\ df' = r.input
        /\ res' = Returned("split_with_foreign_key", key_col, "", SepNone, r)
        /\ pc' = IF r.err = "none" THEN "returned" ELSE "raised"
        /\ calls' = calls + 1

\* the caller calls split_many_to_many(df, left_col, right_col, sep)
CallSplitManyToMany ==
    \E left_col \in LeftArgs, right_col \in RightArgs, sep \in Seps :
        LET r == split_many_to_many(df, left_col, right_col, sep) IN
        /\ pc = "idle"
        /\ calls < MaxCalls
        /\ pre' = df
        /\ df' = r.input
        /\ res' = Returned("split_many_to_many", right_col, left_col, sep, r)
        /\ pc' = IF r.err = "none" THEN "returned" ELSE "raised"
        /\ calls' = calls + 1

\* csv_to_database.py lines 44-51: df, x = split(df, ...): the working table
\* becomes the returned child (or left) table
Thread ==
    /\ pc = "returned"
    /\ df' = res.first
    /\ pre' = res.first
    /\ res' = NoResult
    /\ pc' = "idle"
    /\ UNCHANGED calls

Next == CallSplitWithForeignKey \/ CallSplitManyToMany \/ Thread

Spec == Init /\ [][Next]_vars

SpecChain == InitChain /\ [][Next]_vars

-----------------------------------------------------------------------------
(* Vocabulary of the properties *)

FKDone == res.op = "split_with_foreign_key" /\ pc \in {"returned", "raised"}
M2MDone == res.op = "split_many_to_many" /\ pc \in {"returned", "raised"}
FKReturned == res.op = "split_with_foreign_key" /\ pc = "returned"
M2MReturned == res.op = "split_many_to_many" /\ pc = "returned"

ValuesOf(t, c) == {Column(t, c)[r] : r \in 1..Len(t.rows)}

\* the column a merge attached last, whatever its name
LastColumn(t) == [r \in 1..Len(t.rows) |-> t.rows[r][Len(t.cols)]]

\* the values of the split column of the table the call was given, with null
\* read as "Unknown": of key_col itself for split_with_foreign_key, of
\* right_col after splitting, trimming and exploding for split_many_to_many
ExplodedInput == Explode(M2MNormalize(pre, res.key, res.sep), res.key)

CoalescedValues ==
    IF res.op = "split_with_foreign_key"
    THEN {FillNa(c) : c \in ValuesOf(pre, res.key)}
    ELSE {FillNa(c) : c \in ValuesOf(ExplodedInput, res.key)}

\* a column of the data model: only strings and nulls
PlainColumn(t, c) ==
    \A r \in 1..Len(t.rows) : Column(t, c)[r].kind \in {"null", "str"}

-----------------------------------------------------------------------------
(* C1 *)

\* C1: for every input that passes the validation of split_with_foreign_key,
\* the child table has exactly as many rows as the input table.
C1_ChildKeepsRowCount ==
    (FKReturned /\ PlainColumn(pre, res.key))
        => Len(res.first.rows) = Len(pre.rows)

(* C2 *)

\* C2: the entity table returned by either splitter is a one-to-one
\* correspondence between the distinct coalesced values of the split column
\* and the ids 1..N: no value in two rows, ids exactly 1..N in N rows, N the
\* number of distinct coalesced values.
C2_EntityOneToOne ==
    (pc = "returned" /\ PlainColumn(pre, res.key)) =>
        LET entity == res.second
            N == Len(entity.rows)
        IN /\ \A i, j \in 1..N :
                  Column(entity, res.key)[i] = Column(entity, res.key)[j]
                      => i = j
           /\ \A i \in 1..N : Column(entity, "id")[i] = IntCell(i)
           /\ ValuesOf(entity, res.key) = CoalescedValues
           /\ N = Cardinality(CoalescedValues)

(* C3 *)

\* the (left key, right value) pairs of the input after splitting, trimming
\* and exploding, a null right value read as "Unknown"
ObservedPairs ==
    {<<ExplodedInput.rows[r][ColIndex(ExplodedInput, res.left)],
       FillNa(ExplodedInput.rows[r][ColIndex(ExplodedInput, res.key)])>>
       : r \in 1..Len(ExplodedInput.rows)}

\* the value the right table gives for an id
RightValueOf(id) ==
    LET r == CHOOSE i \in 1..Len(res.second.rows) :
                 Column(res.second, "id")[i] = id
    IN Column(res.second, res.key)[r]

\* the (left key, right value) pairs the junction table stands for
JunctionPairs ==
    {<<res.junction.rows[r][1], RightValueOf(res.junction.rows[r][2])>>
       : r \in 1..Len(res.junction.rows)}

\* C3: the junction table of split_many_to_many has exactly one row per
\* distinct (left key, right value) pair observed after splitting, trimming
\* and exploding, null counting as "Unknown": a row with a null right_column
\* gives one junction row pointing to the "Unknown" row of the right table.
C3_JunctionIsObservedPairs ==
    (M2MReturned /\ PlainColumn(pre, res.key)) =>
        /\ JunctionPairs = ObservedPairs
        /\ Len(res.junction.rows) = Cardinality(ObservedPairs)

(* C4 *)

\* C4: every foreign key of the child table of split_with_foreign_key is the
\* id of a row of the returned parent table; every row of the junction table
\* of split_many_to_many refers to the left key of a row of the returned left
\* table and to the id of a row of the returned right table.
C4_ReferentialIntegrity ==
    /\ FKReturned =>
           \A r \in 1..Len(res.first.rows) :
               LastColumn(res.first)[r] \in ValuesOf(res.second, "id")
    /\ M2MReturned =>
           \A r \in 1..Len(res.junction.rows) :
               /\ Column(res.junction, "title_id")[r]
                      \in ValuesOf(res.first, res.left)
               /\ Column(res.junction, res.key \o "_id")[r]
                      \in ValuesOf(res.second, "id")

\* a junction table of several rows that refer to different right ids, from
\* an input with a null in the split column
C4_Witness ==
    /\ M2MReturned
    /\ \E r \in 1..Len(pre.rows) : IsNull(Column(pre, res.key)[r])
    /\ Cardinality(ValuesOf(res.junction, res.key \o "_id")) >= 2

(* C5 *)

\* the id the parent table gives for a value
ParentIdOf(value) ==
    LET r == CHOOSE i \in 1..Len(res.second.rows) :
                 Column(res.second, res.key)[i] = value
    IN Column(res.second, "id")[r]

\* C5: whether or not the input has a column named "id", the columns of the
\* child table are the input's columns without key_column plus one new column
\* named "{key_column}_id", which holds the parent id of the row's value.
C5_ChildColumns ==
    (FKReturned /\ PlainColumn(pre, res.key)
       /\ Len(res.first.rows) = Len(pre.rows)) =>
        /\ ColSet(res.first)
               = (ColSet(pre) \ {res.key}) \cup {res.key \o "_id"}
        /\ Len(res.first.cols) = Len(pre.cols)
        /\ \A r \in 1..Len(pre.rows) :
               Column(res.first, res.key \o "_id")[r]
                   = ParentIdOf(FillNa(Column(pre, res.key)[r]))

(* C6 *)

\* the preconditions the contract of split_many_to_many states: at least two
\* rows, both columns present, right_column neither all null nor unique per
\* row; and left_key_column unique per row
M2MPreconditions(t, left_col, right_col) ==
    /\ t.isTable
    /\ Len(t.rows) >= 2
    /\ HasCol(t, left_col)
    /\ HasCol(t, right_col)
    /\ ~AllNull(Column(t, right_col))
    /\ NUnique(Column(t, right_col)) # Len(t.rows)
    /\ \A i, j \in 1..Len(t.rows) :
           Column(t, left_col)[i] = Column(t, left_col)[j] => i = j
    /\ ~AllNull(Column(t, left_col))

\* C6: for every table that satisfies the preconditions and every existing,
\* row-unique left_key_column, whatever its name and whether or not there is
\* a column named "id", the call returns its three tables, and the left
\* reference of the junction holds values of left_key_column.
C6_AnyLeftKeyName ==
    (M2MDone /\ M2MPreconditions(pre, res.left, res.key)
       /\ PlainColumn(pre, res.key)) =>
        /\ res.err = "none"
        /\ res.first.isTable /\ res.second.isTable /\ res.junction.isTable
        /\ \A r \in 1..Len(res.junction.rows) :
               res.junction.rows[r][1] \in ValuesOf(pre, res.left)

(* C7 *)

\* C7: when a splitter rejects its input, the caller's table is what it was
\* before the call and no table is returned; a table of one row is rejected
\* with the error of too few rows.
C7_RejectedBeforeChange ==
    /\ pc = "raised" =>
           /\ df = pre
           /\ res.first = NoTable
           /\ res.second = NoTable
           /\ res.junction = NoTable
    /\ (pc \in {"returned", "raised"} /\ pre.isTable /\ Len(pre.rows) = 1) =>
           /\ pc = "raised"
           /\ res.err = "ValueError:fewer than two rows"

\* split_with_foreign_key has rejected, as constant, a column that holds a
\* null, which the fillna of a successful call would have replaced
C7_Witness ==
    /\ pc = "raised"
    /\ res.op = "split_with_foreign_key"
    /\ res.err = "ValueError:one unique value"
    /\ \E r \in 1..Len(pre.rows) : IsNull(Column(pre, res.key)[r])

(* C8 *)

\* C8: a successful call leaves the table object the caller passed in
\* unchanged: same columns, same values, nulls still null.
C8_InputUnchanged ==
    (pc = "returned" /\ PlainColumn(pre, res.key)) => df = pre

(* C9 *)

\* C9: split_with_foreign_key on a table of at least two rows whose
\* key_column holds a list, set or tuple in any row always fails with the
\* error of multivalued entries.
C9_WrongOperation ==
    (FKDone /\ pre.isTable /\ Len(pre.rows) >= 2 /\ HasCol(pre, res.key)
       /\ \E r \in 1..Len(pre.rows) : IsContainer(Column(pre, res.key)[r]))
        => (pc = "raised" /\ res.err = "ValueError:multivalued")

(* C10 *)

\* the separator csv_to_database.py passes (lines 48-51)
DriverSep == <<",", " ">>

\* one splitter call of the caller on column col of its working table
Apply(kind, t, col) ==
    IF kind = "split_with_foreign_key" THEN split_with_foreign_key(t, col)
    ELSE split_many_to_many(t, "id", col, DriverSep)

\* csv_to_database.py lines 44-51: the table returned first by a call is the
\* input of the next call; r1 is what the first call gave
ChainAfter(r1, kind2, col2) ==
    IF r1.err # "none"
    THEN [ok |-> FALSE, entity1 |-> NoTable, junction1 |-> NoTable,
          entity2 |-> NoTable, junction2 |-> NoTable, final |-> NoTable]
    ELSE LET r2 == Apply(kind2, r1.first, col2) IN
         IF r2.err # "none"
         THEN [ok |-> FALSE, entity1 |-> NoTable, junction1 |-> NoTable,
               entity2 |-> NoTable, junction2 |-> NoTable, final |-> NoTable]
         ELSE [ok |-> TRUE, entity1 |-> r1.second, junction1 |-> r1.junction,
               entity2 |-> r2.second, junction2 |-> r2.junction,
               final |-> r2.first]

Chain(t, kind1, col1, kind2, col2) ==
    ChainAfter(Apply(kind1, t, col1), kind2, col2)

SameUpToColumnOrder(t1, t2) ==
    /\ Len(t1.cols) = Len(t2.cols)
    /\ ColSet(t1) = ColSet(t2)
    /\ Project(t2, t1.cols) = t1

\* the outcome of the order (col1, col2) against that of the order (col2, col1)
SameOutcome(ab, ba) ==
    /\ ab.ok = ba.ok
    /\ ab.ok =>
           /\ ab.entity1 = ba.entity2
           /\ ab.entity2 = ba.entity1
           /\ ab.junction1 = ba.junction2
           /\ ab.junction2 = ba.junction1
           /\ SameUpToColumnOrder(ab.final, ba.final)

Kinds == {"split_with_foreign_key", "split_many_to_many"}

\* the caller has made its first call, on split column A or B of its table,
\* with the arguments csv_to_database.py gives
FirstCallDone ==
    /\ calls = 1
    /\ pc \in {"returned", "raised"}
    /\ res.key \in {"A", "B"}
    /\ res.op = "split_many_to_many" => (res.left = "id" /\ res.sep = DriverSep)

OtherColumn == IF res.key = "A" THEN "B" ELSE "A"

\* whatever the second call is, going on from the first call made gives what
\* the two calls give in the other order
OrderIndependent ==
    \A kind2 \in Kinds :
        SameOutcome(ChainAfter(res, kind2, OtherColumn),
                    Chain(pre, kind2, OtherColumn, res.op, res.key))

\* C10: for a working table with a row-unique "id" and two split columns A
\* and B, the order A then B gives the same outcome as the order B then A:
\* both succeed with the same entity, junction and final tables (up to column
\* order), or both are rejected.
C10_OrderIndependent == FirstCallDone => OrderIndependent

\* a column that holds both a null and the literal "Unknown"
NullAndUnknown(t, c) ==
    /\ Null \in ValuesOf(t, c)
    /\ StrCell(Unknown) \in ValuesOf(t, c)

\* the orders agree on every table in which no split column holds both a
\* null and the literal "Unknown"
OrderIndependentWithoutCollision ==
    (FirstCallDone /\ ~NullAndUnknown(pre, "A") /\ ~NullAndUnknown(pre, "B"))
        => OrderIndependent

=============================================================================
